---------------------------- MODULE Spec2Model ----------------------------
(***************************************************************************)
(* A model of fetch.py: the one-shot pipeline that finds the latest        *)
(* New Year speech in the first accordion of the index page, extracts the  *)
(* speech text and archives it as taler/<year>.md unless that file exists. *)
(*                                                                         *)
(* Text is a sequence of one-character strings, so that the regular        *)
(* expressions, strip(), lower() and the concatenation with BASE_URL are   *)
(* computed and not assumed.  An element's text is the sequence of its     *)
(* text nodes; a paragraph of the speech page is abstracted to the length  *)
(* of its text.                                                            *)
(***************************************************************************)
EXTENDS Integers, Sequences, FiniteSets

VARIABLES
    pc,           \* where the process is in __main__, main and write_markdown
    caller,       \* "main" for a run of the script, "direct" for a call of write_markdown
    store,        \* taler/: year |-> the file taler/<year>.md
    dir,          \* whether the directory taler/ exists
    today,        \* the local calendar date, datetime.now()
    runs,         \* runs and calls started so far
    index_html,   \* main: the fetched index page
    latest,       \* main: (year, speech_url)
    speech_html,  \* main: the fetched speech page
    extracted,    \* main: (title, text)
    md,           \* write_markdown: the formatted document
    exit,         \* <<code>> once the process has exited
    failure,      \* the stage whose exception ended the run, "none" without one
    gets,         \* requests.get calls of this run, per page
    store0,       \* taler/ as the run found it
    arg,          \* the input of a function applied on its own
    ret           \* and its result

fsVars == <<store, dir>>

runVars == <<index_html, latest, speech_html, extracted, md>>

endVars == <<exit, failure>>

pipelineVars == <<caller, store, dir, today, runs, index_html, latest, speech_html,
                  extracted, md, exit, failure, gets, store0>>

vars == <<pc, pipelineVars, arg, ret>>

-----------------------------------------------------------------------------
(* Characters and strings                                                  *)

Digits == {"0", "1", "2", "3", "4", "5", "6", "7", "8", "9"}

Uppers == <<"A","B","C","D","E","F","G","H","I","J","K","L","M","N","O","P","Q","R","S","T","U","V","W","X","Y","Z","Æ","Ø","Å">>

Lowers == <<"a","b","c","d","e","f","g","h","i","j","k","l","m","n","o","p","q","r","s","t","u","v","w","x","y","z","æ","ø","å">>

Letters == {Uppers[i] : i \in 1..Len(Uppers)} \cup {Lowers[i] : i \in 1..Len(Lowers)}

\* \w of a str pattern: letters, digits and the underscore
WordChars == Letters \cup Digits \cup {"_"}

\* the characters str.strip() removes
Whitespace == {" ", "\t", "\n", "\r"}

DigitVal(c) ==
    CASE c = "0" -> 0 [] c = "1" -> 1 [] c = "2" -> 2 [] c = "3" -> 3
      [] c = "4" -> 4 [] c = "5" -> 5 [] c = "6" -> 6 [] c = "7" -> 7
      [] c = "8" -> 8 [] c = "9" -> 9

\* int() of a string of four digits
int(s) == 1000 * DigitVal(s[1]) + 100 * DigitVal(s[2]) + 10 * DigitVal(s[3]) + DigitVal(s[4])

\* str.lower(), one character
LowerChar(c) ==
    IF \E i \in 1..Len(Uppers) : Uppers[i] = c
    THEN Lowers[CHOOSE i \in 1..Len(Uppers) : Uppers[i] = c]
    ELSE c

lower(s) == [i \in 1..Len(s) |-> LowerChar(s[i])]

RECURSIVE lstrip(_)
lstrip(s) == IF s /= <<>> /\ Head(s) \in Whitespace THEN lstrip(Tail(s)) ELSE s

RECURSIVE rstrip(_)
rstrip(s) ==
    IF s /= <<>> /\ s[Len(s)] \in Whitespace THEN rstrip(SubSeq(s, 1, Len(s) - 1)) ELSE s

strip(s) == rstrip(lstrip(s))

startswith(s, p) == Len(s) >= Len(p) /\ SubSeq(s, 1, Len(p)) = p

\* sub in s
contains(s, sub) ==
    \E i \in 1..(Len(s) + 1) : i + Len(sub) - 1 <= Len(s) /\ SubSeq(s, i, i + Len(sub) - 1) = sub

\* Tag.get_text(" ", strip=True): the text nodes stripped, the empty ones
\* skipped, the rest joined by one space
RECURSIVE get_text(_)
get_text(nodes) ==
    IF nodes = <<>> THEN <<>>
    ELSE LET s == strip(Head(nodes))
             rest == get_text(Tail(nodes))
         IN  IF s = <<>> THEN rest
             ELSE IF rest = <<>> THEN s
             ELSE s \o <<" ">> \o rest

\* all sequences over S of length lo..hi
SeqsOf(S, lo, hi) == UNION {[1..n -> S] : n \in lo..hi}

-----------------------------------------------------------------------------
(* The constants and the two regular expressions                           *)

BASE_URL == <<"h","t","t","p","s",":","/","/","w","w","w",".","k","o","n","g","e","h","u","s","e","t",".","d","k">>

NoYear == 0

IsWordAt(s, k) == k \in 1..Len(s) /\ s[k] \in WordChars

\* \b between s[i-1] and s[i]
WordBoundary(s, i) == IsWordAt(s, i - 1) /= IsWordAt(s, i)

\* \b(19|20)\d{2}\b matches s at position i
YearAt(s, i) ==
    /\ i + 3 <= Len(s)
    /\ WordBoundary(s, i)
    /\ \/ s[i] = "1" /\ s[i + 1] = "9"
       \/ s[i] = "2" /\ s[i + 1] = "0"
    /\ s[i + 2] \in Digits
    /\ s[i + 3] \in Digits
    /\ WordBoundary(s, i + 4)

RECURSIVE YearScan(_, _)
YearScan(s, i) ==
    IF i + 3 > Len(s) THEN NoYear
    ELSE IF YearAt(s, i) THEN int(SubSeq(s, i, i + 3))
    ELSE YearScan(s, i + 1)

\* YEAR_RE.search(s), then int(m.group(0)); NoYear when there is no match
YEAR_RE(s) == YearScan(s, 1)

HrefPrefix == <<"/","n","y","h","e","d","e","r","/","l","a","e","s","-">>

HrefMarker == <<"-","n","y","t","a","a","r","s","t","a","l","e","-">>

\* s[d..d+3] are digits that end the pattern at e, with or without a "/"
HrefTail(s, d, e) ==
    /\ \A k \in d..(d + 3) : s[k] \in Digits
    /\ \/ e = d + 3
       \/ e = d + 4 /\ s[e] = "/"

\* SPEECH_HREF_RE.match(s): ^/nyheder/laes-.*-nytaarstale-\d{4}/?$
\* ("." is any character but a newline; "$" is the end, or a last newline)
SPEECH_HREF_RE(s) ==
    \E e \in {Len(s)} \cup {n \in {Len(s) - 1} : n >= 1 /\ s[Len(s)] = "\n"} :
      \E d \in 1..e :
        /\ d + 3 <= e
        /\ HrefTail(s, d, e)
        /\ d - Len(HrefMarker) >= Len(HrefPrefix) + 1
        /\ SubSeq(s, d - Len(HrefMarker), d - 1) = HrefMarker
        /\ startswith(s, HrefPrefix)
        /\ \A k \in (Len(HrefPrefix) + 1)..(d - Len(HrefMarker) - 1) : s[k] /= "\n"

Keyword == <<"n","y","t","å","r","s","t","a","l","e">>

-----------------------------------------------------------------------------
(* The index page: a sequence of accordions (div.accordion, in document    *)
(* order), each a sequence of items (.accordion__container__item).  An     *)
(* item has at most one title toggle, given by its text nodes, and links:  *)
(* [href, nodes (the text nodes), title (the attribute, empty when         *)
(* absent), inContent (inside .accordion__container__item__content)].      *)

NoLink == [found |-> FALSE, href |-> <<>>]

Found(h) == [found |-> TRUE, href |-> h]

\* item.select('.accordion__container__item__content a[href^="/"]')
ContentLinks(item) ==
    SelectSeq(item.links, LAMBDA a : a.inContent /\ startswith(a.href, <<"/">>))

HasKeyword(a) ==
    \/ contains(lower(get_text(a.nodes)), Keyword)
    \/ contains(lower(a.title), Keyword)

MatchesPattern(a) == SPEECH_HREF_RE(strip(a.href))

\* "for a in links: if ...: return": the first link of a sequence of links,
\* flagged by whether each passes the test, that passes it
FirstOf(links, passes) ==
    links[CHOOSE i \in 1..Len(links) : passes[i] /\ \A j \in 1..(i - 1) : ~passes[j]]

\* choose_best_link with the keyword tried before the pattern
choose_best_link_keywordfirst(item) ==
    LET links == ContentLinks(item)
        byPattern == [i \in 1..Len(links) |-> MatchesPattern(links[i])]
        byKeyword == [i \in 1..Len(links) |-> HasKeyword(links[i])]
    IN  IF links = <<>> THEN NoLink
        ELSE IF \E i \in 1..Len(links) : byKeyword[i]
        THEN Found(strip(FirstOf(links, byKeyword).href))
        ELSE IF \E i \in 1..Len(links) : byPattern[i]
        THEN Found(strip(FirstOf(links, byPattern).href))
        ELSE Found(strip(links[1].href))

\* lines 56-83
choose_best_link(item) ==
    LET links == ContentLinks(item)
        byPattern == [i \in 1..Len(links) |-> MatchesPattern(links[i])]
        byKeyword == [i \in 1..Len(links) |-> HasKeyword(links[i])]
    IN  IF links = <<>> THEN NoLink
        ELSE IF \E i \in 1..Len(links) : byPattern[i]
        THEN Found(strip(FirstOf(links, byPattern).href))
        ELSE IF \E i \in 1..Len(links) : byKeyword[i]
        THEN Found(strip(FirstOf(links, byKeyword).href))
        ELSE Found(strip(links[1].href))

\* the text of the item's title toggle, "" when it has none
TitleText(item) == IF item.toggle.present THEN get_text(item.toggle.nodes) ELSE <<>>

\* the year searched in the toggle's text, then in the links' text, then in
\* their title attributes, then in their hrefs
ItemYear_anywhere(item) ==
    LET links == ContentLinks(item)
        all == <<TitleText(item)>>
               \o [i \in 1..Len(links) |-> get_text(links[i].nodes)]
               \o [i \in 1..Len(links) |-> links[i].title]
               \o [i \in 1..Len(links) |-> links[i].href]
        hits == SelectSeq(all, LAMBDA t : YEAR_RE(t) /= NoYear)
    IN  IF hits = <<>> THEN NoYear ELSE YEAR_RE(hits[1])

\* the year of an item: lines 93-99
ItemYear(item) == YEAR_RE(TitleText(item))

\* the href alone
Join_bare(base, href) == href

\* BASE_URL + href
Join(base, href) == base \o href

\* the body of the loop over the items, lines 93-105: the candidates one
\* item adds
ItemCandidates(item) ==
    LET year == ItemYear(item)
        link == choose_best_link(item)
    IN  IF year = NoYear THEN <<>>
        ELSE IF ~link.found \/ link.href = <<>> \/ ~startswith(link.href, <<"/">>) THEN <<>>
        ELSE << [year |-> year, url |-> Join(BASE_URL, link.href)] >>

-----------------------------------------------------------------------------
(* find_latest_from_first_accordion                                        *)

NoLatest == [err |-> "unset", year |-> NoYear, url |-> <<>>]

\* the last div.accordion of the page
get_first_accordion_last(page) == page[Len(page)]

\* soup.select_one("div.accordion"), for a page that has one: the first in
\* document order
get_first_accordion(page) == page[1]

\* the loop of lines 92-105 over the items of root
RECURSIVE Candidates(_)
Candidates(items) ==
    IF items = <<>> THEN <<>>
    ELSE ItemCandidates(Head(items)) \o Candidates(Tail(items))

\* c put into a list sorted by descending year, before its equals: a sort
\* that is not stable
InsertDesc_unstable(sorted, c) ==
    LET before == SelectSeq(sorted, LAMBDA x : x.year > c.year)
        after == SelectSeq(sorted, LAMBDA x : x.year <= c.year)
    IN  before \o <<c>> \o after

\* c put into a list sorted by descending year, after its equals
InsertDesc(sorted, c) ==
    LET before == SelectSeq(sorted, LAMBDA x : x.year >= c.year)
        after == SelectSeq(sorted, LAMBDA x : x.year < c.year)
    IN  before \o <<c>> \o after

\* candidates.sort(key=lambda x: x[0], reverse=True): a stable sort, which
\* keeps the order of candidates of equal year
RECURSIVE SortDesc(_, _)
SortDesc(sorted, rest) ==
    IF rest = <<>> THEN sorted
    ELSE SortDesc(InsertDesc(sorted, Head(rest)), Tail(rest))

\* lines 110-111
Latest(candidates) == SortDesc(<<>>, candidates)[1]

\* lines 86-111; a page without any accordion makes get_first_accordion raise
find_latest_from_first_accordion(page) ==
    IF page = <<>> THEN [err |-> "no_accordion", year |-> NoYear, url |-> <<>>]
    ELSE LET candidates == Candidates(get_first_accordion(page))
         IN  IF candidates = <<>>
             THEN [err |-> "no_candidates", year |-> NoYear, url |-> <<>>]
             ELSE [err |-> "none", year |-> Latest(candidates).year,
                   url |-> Latest(candidates).url]

-----------------------------------------------------------------------------
(* Inputs of the functions applied on their own                            *)

MaxLinks == 2

MaxItems == 2

MaxSections == 2

MaxCandidates == 3

Hrefs ==
    { <<"/","n","y","h","e","d","e","r","/","l","a","e","s","-","k","-","n","y","t","a","a","r","s","t","a","l","e","-","2","0","2","5","/">>,
      <<"/","t","a","l","e","-","2","0","2","3"," ">>,
      <<"/","o","m">>,
      <<"h","t","t","p","s",":","/","/","d","r",".","d","k","/","t","a","l","e","-","2","0","2","2">> }

\* the text nodes and the title attribute of a link
LinkLabels ==
    { [nodes |-> <<<<"S","e"," ","m","e","r","e">>>>, title |-> <<>>],
      [nodes |-> <<<<" ","K","o","n","g","e","n","s"," ","N","Y","T","Å","R","S","T","A","L","E">>, <<"2","0","2","1"," ">>>>, title |-> <<>>],
      [nodes |-> <<<<"S","e"," ","m","e","r","e">>>>, title |-> <<"N","y","t","å","r","s","t","a","l","e"," ","2","0","2","0">>] }

Links ==
    {[href |-> h, nodes |-> l.nodes, title |-> l.title, inContent |-> c] :
        h \in Hrefs, l \in LinkLabels, c \in BOOLEAN}

Toggles ==
    {[present |-> FALSE, nodes |-> <<>>]} \cup
    [present : {TRUE},
     nodes : { <<<<"N","y","t","å","r","s","t","a","l","e"," ","2","0","2","4">>>>, <<<<"T","a","l","e">>>>, <<<<" ","1","9","9","9"," ","o","g"," ","2","0","2","5">>>>,
               <<<<"A","1","2","0","2","4"," ","2","0","2","4","b">>>>, <<<<"2","0">>, <<"2","4">>>>, <<<<"2","1","0","0",",","1","8","9","9">>>> }]

Items == [toggle : Toggles, links : SeqsOf(Links, 0, MaxLinks)]

-----------------------------------------------------------------------------
(* extract_title_and_text.  A speech page is [h1, hasMain, ps]: the first  *)
(* h1 by its text nodes, whether there is a main element, and the p        *)
(* elements in document order, each [len, inMain]: the length of           *)
(* p.get_text(" ", strip=True), 0 for a p of whitespace only, and whether  *)
(* the p is inside main.                                                   *)

MinBodyLen == 500

Fallback == <<"K","o","n","g","e","n","s"," ","n","y","t","å","r","s","t","a","l","e">>

\* main.find_all("p"), main being soup.find("main") or soup
Paragraphs(page) ==
    IF page.hasMain THEN SelectSeq(page.ps, LAMBDA p : p.inMain) ELSE page.ps

\* the lengths of the texts [p.get_text(" ", strip=True) for p in ...] that
\* are not empty, lines 125-126
NonEmpty(ps) ==
    LET kept == SelectSeq(ps, LAMBDA p : p.len > 0)
    IN  [i \in 1..Len(kept) |-> kept[i].len]

RECURSIVE Sum(_)
Sum(lens) == IF lens = <<>> THEN 0 ELSE Head(lens) + Sum(Tail(lens))

\* len("\n\n".join(...))
JoinedLen(lens) == IF lens = <<>> THEN 0 ELSE Sum(lens) + 2 * (Len(lens) - 1)

\* the check with <= for <
TooShort_inclusive(n) == n <= MinBodyLen

\* line 129
TooShort(n) == n < MinBodyLen

\* lines 114-132
extract_title_and_text(page) ==
    LET title == IF page.h1.present THEN get_text(page.h1.nodes) ELSE Fallback
        text == NonEmpty(Paragraphs(page))
    IN  IF TooShort(JoinedLen(text))
        THEN [err |-> "too_short", title |-> <<>>, text |-> <<>>]
        ELSE [err |-> "none", title |-> title, text |-> text]

-----------------------------------------------------------------------------
(* The pages the two requests can return, and the direct calls             *)

MaxParas == 2

MaxRuns == 2

Dates == {1, 2}

StoreYears == {2024, 2025, 2026}

PageItem(toggle, href) ==
    [toggle |-> [present |-> TRUE, nodes |-> <<toggle>>],
     links |-> << [href |-> href, nodes |-> <<<<"L","æ","s"," ","t","a","l","e","n">>>>,
                   title |-> <<>>, inContent |-> TRUE] >>]

Item2024 == PageItem(<<"N","y","t","å","r","s","t","a","l","e"," ","2","0","2","4">>, <<"/","n","y","h","e","d","e","r","/","l","a","e","s","-","a","-","n","y","t","a","a","r","s","t","a","l","e","-","2","0","2","4","/">>)

Item2025 == PageItem(<<"N","y","t","å","r","s","t","a","l","e"," ","2","0","2","5">>, <<"/","n","y","h","e","d","e","r","/","l","a","e","s","-","b","-","n","y","t","a","a","r","s","t","a","l","e","-","2","0","2","5","/">>)

Item2026 == PageItem(<<"N","y","t","å","r","s","t","a","l","e"," ","2","0","2","6">>, <<"/","n","y","h","e","d","e","r","/","l","a","e","s","-","c","-","n","y","t","a","a","r","s","t","a","l","e","-","2","0","2","6","/">>)

ItemNoYear == PageItem(<<"T","a","l","e">>, <<"/","n","y","h","e","d","e","r","/","t","a","l","e","/">>)

IndexPages ==
    { <<>>,
      << <<ItemNoYear>>, <<Item2026>> >>,
      << <<Item2024>> >>,
      << <<Item2024, Item2025>>, <<Item2026>> >> }

ParaLens == {0, 248, 250}

Paras == [len : ParaLens, inMain : BOOLEAN]

\* (without a main element no p is inside one)
SpeechPages ==
    { page \in [h1 : { [present |-> FALSE, nodes |-> <<>>],
                       [present |-> TRUE, nodes |-> <<<<" ","N","y","t","å","r","s","t","a","l","e"," ","2","0","2","5"," ">>>>] },
                hasMain : BOOLEAN,
                ps : SeqsOf(Paras, 0, MaxParas)] :
        page.hasMain \/ \A i \in 1..Len(page.ps) : ~page.ps[i].inMain }

DirectCalls ==
    [year : {2024, 2025}, title : {<<"T","a","l","e">>}, source_url : {BASE_URL \o <<"/","t">>},
     text : {<<3>>}]

-----------------------------------------------------------------------------
(* The file system                                                         *)

NoDoc == [title |-> <<>>, source_url |-> <<>>, fetched |-> 0, text |-> <<>>]

Absent == [exists |-> FALSE, data |-> NoDoc, written |-> "nothing"]

\* the f-string of lines 144-152: title, Kilde, Hentet and the text
Format(title, source_url, fetched, text) ==
    [title |-> title, source_url |-> source_url, fetched |-> fetched, text |-> text]

\* main without its check
OutFileExists_never(st, year) == FALSE

\* main, lines 162-163: (Path("taler") / f"{year}.md").exists()
OutFileExists(st, year) == st[year].exists

\* write_markdown without its check
WrittenBefore_ignored(st, year) == FALSE

\* write_markdown, lines 139-140: out_file.exists()
WrittenBefore(st, year) == st[year].exists

\* an exit code of 0 whatever happened
ExitCode_zero(fail) == 0

\* __main__: SystemExit(main()), SystemExit(1) in both except clauses
ExitCode(fail) == IF fail = "none" THEN 0 ELSE 1

-----------------------------------------------------------------------------
(* The pipeline                                                            *)

NoExtract == [err |-> "unset", title |-> <<>>, text |-> <<>>]

NoPage == [h1 |-> [present |-> FALSE, nodes |-> <<>>], hasMain |-> FALSE, ps |-> <<>>]

NoGets == [index |-> 0, speech |-> 0]

Fresh ==
    /\ index_html = <<>>
    /\ latest = NoLatest
    /\ speech_html = NoPage
    /\ extracted = NoExtract
    /\ md = NoDoc
    /\ exit = <<>>
    /\ failure = "none"
    /\ gets = NoGets

\* nothing has run yet: taler/ does not exist
Idle ==
    /\ pc = "idle"
    /\ caller = "none"
    /\ store = [y \in StoreYears |-> Absent]
    /\ dir = FALSE
    /\ today = 1
    /\ runs = 0
    /\ Fresh
    /\ store0 = [store |-> store, dir |-> dir]

Init ==
    /\ Idle
    /\ arg = <<>>
    /\ ret = <<>>

\* the date changes between two runs
Tick ==
    /\ pc \in {"idle", "done"}
    /\ today + 1 \in Dates
    /\ today' = today + 1
    /\ UNCHANGED <<pc, caller, fsVars, runs, runVars, endVars, gets, store0, arg, ret>>

\* python fetch.py
Start ==
    /\ pc \in {"idle", "done"}
    /\ runs < MaxRuns
    /\ runs' = runs + 1
    /\ pc' = "get_index"
    /\ caller' = "main"
    /\ index_html' = <<>>
    /\ latest' = NoLatest
    /\ speech_html' = NoPage
    /\ extracted' = NoExtract
    /\ md' = NoDoc
    /\ exit' = <<>>
    /\ failure' = "none"
    /\ gets' = NoGets
    /\ store0' = [store |-> store, dir |-> dir]
    /\ UNCHANGED <<fsVars, today, arg, ret>>

\* the exception reaches __main__, which prints it and exits; the locals
\* of main and write_markdown are gone
Raise(stage) ==
    /\ pc' = "done"
    /\ failure' = stage
    /\ exit' = IF caller = "main" THEN <<ExitCode(stage)>> ELSE exit
    /\ index_html' = <<>>
    /\ speech_html' = NoPage
    /\ extracted' = NoExtract
    /\ md' = NoDoc

\* main returns 0, or write_markdown returns to its caller
Return ==
    /\ pc' = "done"
    /\ failure' = "none"
    /\ exit' = IF caller = "main" THEN <<ExitCode("none")>> ELSE exit
    /\ index_html' = <<>>
    /\ speech_html' = NoPage
    /\ extracted' = NoExtract
    /\ md' = NoDoc

\* line 158: get_html(INDEX_URL)
GetIndex ==
    /\ pc = "get_index"
    /\ gets' = [gets EXCEPT !.index = @ + 1]
    /\ \/ Raise("network_index")
       \/ /\ \E page \in IndexPages : index_html' = page
          /\ pc' = "find_latest"
          /\ UNCHANGED <<endVars, speech_html, extracted, md>>
    /\ UNCHANGED <<caller, fsVars, today, runs, latest, store0, arg, ret>>

\* lines 160-165: find_latest_from_first_accordion, then the existence check
FindLatest ==
    /\ pc = "find_latest"
    /\ LET found == find_latest_from_first_accordion(index_html)
       IN  IF found.err /= "none"
           THEN /\ Raise("structure")
                /\ UNCHANGED latest
           ELSE /\ latest' = found
                /\ IF OutFileExists(store, found.year)
                   THEN Return
                   ELSE /\ pc' = "get_speech"
                        /\ UNCHANGED <<endVars, index_html, speech_html, extracted, md>>
    /\ UNCHANGED <<caller, fsVars, today, runs, gets, store0, arg, ret>>

\* line 167: get_html(speech_url)
GetSpeech ==
    /\ pc = "get_speech"
    /\ gets' = [gets EXCEPT !.speech = @ + 1]
    /\ \/ Raise("network_speech")
       \/ /\ \E page \in SpeechPages : speech_html' = page
          /\ pc' = "extract"
          /\ UNCHANGED <<endVars, index_html, extracted, md>>
    /\ UNCHANGED <<caller, fsVars, today, runs, latest, store0, arg, ret>>

\* line 168: extract_title_and_text(speech_html)
Extract ==
    /\ pc = "extract"
    /\ LET got == extract_title_and_text(speech_html)
       IN  IF got.err /= "none"
           THEN Raise("extraction")
           ELSE /\ extracted' = got
                /\ pc' = "write_markdown"
                /\ UNCHANGED <<endVars, index_html, speech_html, md>>
    /\ UNCHANGED <<caller, fsVars, today, runs, latest, gets, store0, arg, ret>>

\* write_markdown(year, title, source_url, text) called by something else
\* than main, a test for one
DirectCall ==
    /\ pc \in {"idle", "done"}
    /\ runs < MaxRuns
    /\ runs' = runs + 1
    /\ \E call \in DirectCalls :
          /\ latest' = [err |-> "none", year |-> call.year, url |-> call.source_url]
          /\ extracted' = [err |-> "none", title |-> call.title, text |-> call.text]
    /\ pc' = "write_markdown"
    /\ caller' = "direct"
    /\ index_html' = <<>>
    /\ speech_html' = NoPage
    /\ md' = NoDoc
    /\ exit' = <<>>
    /\ failure' = "none"
    /\ gets' = NoGets
    /\ store0' = [store |-> store, dir |-> dir]
    /\ UNCHANGED <<fsVars, today, arg, ret>>

\* lines 136-152: mkdir, the existence check, the document
WriteMarkdown ==
    /\ pc = "write_markdown"
    /\ dir' = TRUE
    /\ IF WrittenBefore(store, latest.year)
       THEN Return
       ELSE /\ md' = Format(extracted.title, latest.url, today, extracted.text)
            /\ pc' = "write_text"
            /\ UNCHANGED <<endVars, index_html, speech_html, extracted>>
    /\ UNCHANGED <<caller, store, today, runs, latest, gets, store0, arg, ret>>

\* line 153, write_text opens the file for writing: it is there, and empty
WriteOpen ==
    /\ pc = "write_text"
    /\ store' = [store EXCEPT ![latest.year] =
                    [exists |-> TRUE, data |-> md, written |-> "nothing"]]
    /\ pc' = "write_data"
    /\ UNCHANGED <<caller, dir, today, runs, runVars, endVars, gets, store0, arg, ret>>

\* write_text has written a part of the document
WritePart ==
    /\ pc = "write_data"
    /\ store[latest.year].written = "nothing"
    /\ store' = [store EXCEPT ![latest.year].written = "part"]
    /\ UNCHANGED <<pc, caller, dir, today, runs, runVars, endVars, gets, store0, arg, ret>>

\* write_text has written the rest and closed the file; lines 154, 171-173
WriteRest ==
    /\ pc = "write_data"
    /\ store' = [store EXCEPT ![latest.year].written = "all"]
    /\ Return
    /\ UNCHANGED <<caller, dir, today, runs, latest, gets, store0, arg, ret>>

\* write_text raises OSError (no space left, no permission)
WriteError ==
    /\ pc \in {"write_text", "write_data"}
    /\ Raise("write")
    /\ UNCHANGED <<caller, fsVars, today, runs, latest, gets, store0, arg, ret>>

Next ==
    \/ Tick
    \/ Start
    \/ GetIndex
    \/ FindLatest
    \/ GetSpeech
    \/ Extract
    \/ DirectCall
    \/ WriteMarkdown
    \/ WriteOpen
    \/ WritePart
    \/ WriteRest
    \/ WriteError

Spec == Init /\ [][Next]_vars

-----------------------------------------------------------------------------
(* Claims about the pipeline                                               *)

\* write_text is creating taler/<y>.md and has not returned yet
BeingWritten(y) == pc = "write_data" /\ latest.year = y

\* C1: taler/ holds one file per year (store is a function of the year) and
\* a file that exists is never overwritten: apart from the write_text call
\* that creates the file and is still filling it, no step of any run of the
\* script or call of write_markdown changes a file that exists, whatever
\* title, text or date the later run has.
C1_NeverOverwritten ==
    [][\A y \in StoreYears :
          (store[y].exists /\ ~BeingWritten(y)) => store'[y] = store[y]]_vars

\* a direct call of write_markdown has returned, for a year whose file an
\* earlier run of the script wrote from another URL: the file is as it was
C1_Witness ==
    /\ pc = "done"
    /\ caller = "direct"
    /\ failure = "none"
    /\ store0.store[latest.year].exists
    /\ store0.store[latest.year].written = "all"
    /\ store[latest.year] = store0.store[latest.year]
    /\ store[latest.year].data.source_url /= latest.url

\* C2: when the file of the resolved year exists as the run starts, the run
\* fetches the index page only, never requests the speech page, leaves
\* taler/ and its files as they were, and exits with code 0.
C2_ShortCircuit ==
    (caller = "main" /\ latest.err = "none" /\ store0.store[latest.year].exists) =>
        /\ pc = "done"
        /\ exit = <<0>>
        /\ failure = "none"
        /\ gets = [index |-> 1, speech |-> 0]
        /\ store = store0.store
        /\ dir = store0.dir

C2_Witness ==
    /\ pc = "done"
    /\ caller = "main"
    /\ latest.err = "none"
    /\ store0.store[latest.year].exists
    /\ exit = <<0>>
    /\ gets.speech = 0

EarlyFailures == {"network_index", "structure", "network_speech", "extraction"}

\* C3: a network error on either fetch, a missing accordion or no
\* candidates, and an extraction error each end the run with exit code 1,
\* the failed request made once and not again, and taler/ and its files as
\* the run found them.  (An OSError of write_text, which C4 is about, also
\* exits with code 1, but it is no failure of these stages.)
C3_FailureAborts ==
    caller = "main" =>
        /\ gets.index <= 1 /\ gets.speech <= 1
        /\ failure /= "none" => (pc = "done" /\ exit = <<1>>)
        /\ failure \in EarlyFailures => (store = store0.store /\ dir = store0.dir)
        /\ failure \in {"network_index", "structure"} => gets = [index |-> 1, speech |-> 0]
        /\ failure \in {"network_speech", "extraction"} => gets = [index |-> 1, speech |-> 1]

\* the speech request failed in a run that found another year archived
C3_Witness ==
    /\ pc = "done"
    /\ caller = "main"
    /\ failure = "network_speech"
    /\ exit = <<1>>
    /\ \E y \in StoreYears : store0.store[y].exists
    /\ store = store0.store

\* C4: a file of taler/ is never seen empty or holding only a part of its
\* document.
C4_WholeFileOrNone ==
    \A y \in StoreYears : store[y].exists => store[y].written = "all"

\* the length of the non-empty paragraphs of the content region, joined by
\* blank lines
BodyLen(page) ==
    LET ps == SelectSeq(page.ps, LAMBDA p : (page.hasMain => p.inMain) /\ p.len > 0)
    IN  IF ps = <<>> THEN 0
        ELSE Sum([i \in 1..Len(ps) |-> ps[i].len]) + 2 * (Len(ps) - 1)

\* C8: extraction of a page whose body is under 500 characters, the empty
\* body included, fails: the run ends there with exit code 1 and taler/ as
\* the run found it; a body of 500 characters or more is accepted and handed
\* to write_markdown.
C8_ShortBodyRejected ==
    [][pc = "extract" =>
          IF BodyLen(speech_html) < 500
          THEN /\ pc' = "done"
               /\ failure' = "extraction"
               /\ exit' = <<1>>
               /\ store' = store0.store
               /\ dir' = store0.dir
          ELSE /\ pc' = "write_markdown"
               /\ failure' = "none"
               /\ extracted'.err = "none"
               /\ JoinedLen(extracted'.text) = BodyLen(speech_html)]_vars

\* a run has ended in the extraction error, in a second run, with a file of
\* an earlier run in taler/
C8_Witness ==
    /\ pc = "done"
    /\ caller = "main"
    /\ failure = "extraction"
    /\ gets.speech = 1
    /\ \E y \in StoreYears : store[y].exists
    /\ store = store0.store

-----------------------------------------------------------------------------
(* One pass of the loop of find_latest_from_first_accordion, applied to    *)
(* an item on its own                                                      *)

ItemInit ==
    /\ Idle
    /\ arg \in Items
    /\ ret = <<>>

\* one pass of the loop body of find_latest_from_first_accordion
ApplyItem ==
    /\ pc = "idle"
    /\ pc' = "returned"
    /\ ret' = [link |-> choose_best_link(arg), candidates |-> ItemCandidates(arg)]
    /\ UNCHANGED <<pipelineVars, arg>>

SpecItem == ItemInit /\ [][ApplyItem]_vars


-----------------------------------------------------------------------------
(* Claims about one item                                                   *)

InternalLink(a) == startswith(a.href, <<"/">>)

\* links[i] is the first of links that matches the pattern, has the keyword,
\* has an internal href
FirstWithPattern(links, i) ==
    /\ MatchesPattern(links[i])
    /\ \A j \in 1..(i - 1) : ~MatchesPattern(links[j])

FirstWithKeyword(links, i) ==
    /\ HasKeyword(links[i])
    /\ \A j \in 1..(i - 1) : ~HasKeyword(links[j])

FirstInternal(links, i) ==
    /\ InternalLink(links[i])
    /\ \A j \in 1..(i - 1) : ~InternalLink(links[j])

\* h is what the strategy chain (a) pattern, (b) keyword, (c) first internal
\* link, first success wins, picks among links; absent when none applies
ChainPicks(links, h) ==
    IF \E i \in 1..Len(links) : MatchesPattern(links[i])
    THEN \E i \in 1..Len(links) :
            FirstWithPattern(links, i) /\ h = Found(strip(links[i].href))
    ELSE IF \E i \in 1..Len(links) : HasKeyword(links[i])
    THEN \E i \in 1..Len(links) :
            FirstWithKeyword(links, i) /\ h = Found(strip(links[i].href))
    ELSE IF \E i \in 1..Len(links) : InternalLink(links[i])
    THEN \E i \in 1..Len(links) :
            FirstInternal(links, i) /\ h = Found(strip(links[i].href))
    ELSE h = NoLink

HasYear(t) == \E i \in 1..Len(t) : YearAt(t, i)

\* y is the first match of the year pattern in t
FirstYearIs(t, y) ==
    \E i \in 1..Len(t) :
        /\ YearAt(t, i)
        /\ \A j \in 1..(i - 1) : ~YearAt(t, j)
        /\ y = int(SubSeq(t, i, i + 3))

\* C9, as stated: the year is the first match searched across the toggle's
\* and links' text, then the title attributes, then the hrefs, and an item
\* with a usable link is rejected only when none of them holds a year.
C9_YearFromAnySource ==
    (pc = "returned" /\ ret.link.found) =>
        LET y == ItemYear_anywhere(arg)
        IN  /\ y /= NoYear => (Len(ret.candidates) = 1 /\ ret.candidates[1].year = y)
            /\ y = NoYear => ret.candidates = <<>>

\* C9, amended: the year of an item is the first match of the 4-digit
\* pattern (1900-2099, on word boundaries) in the text of the item's title
\* toggle, and nowhere else: an item with a usable link yields a candidate
\* exactly when its toggle text holds a year, whatever years its links'
\* text, title attributes or hrefs hold.
C9_YearFromToggleOnly ==
    pc = "returned" =>
        /\ ret.candidates /= <<>> <=> (HasYear(TitleText(arg)) /\ ret.link.found)
        /\ \A i \in 1..Len(ret.candidates) :
              /\ FirstYearIs(TitleText(arg), ret.candidates[i].year)
              /\ ret.candidates[i].year \in 1900..2099

\* an item with a usable link whose only year is in the href: rejected
C9_Witness ==
    /\ pc = "returned"
    /\ ret.link.found
    /\ ~HasYear(TitleText(arg))
    /\ HasYear(ret.link.href)
    /\ ret.candidates = <<>>

-----------------------------------------------------------------------------
(* find_latest_from_first_accordion applied to a page                      *)

PageItems == {Item2024, Item2025, ItemNoYear}

Pages == SeqsOf(SeqsOf(PageItems, 0, MaxItems), 0, MaxSections)

PageInit ==
    /\ Idle
    /\ arg \in Pages
    /\ ret = <<>>

ApplyPage ==
    /\ pc = "idle"
    /\ pc' = "returned"
    /\ ret' = find_latest_from_first_accordion(arg)
    /\ UNCHANGED <<pipelineVars, arg>>

SpecPage == PageInit /\ [][ApplyPage]_vars

\* the (year, url) pairs the items of a section can give
SectionPairs(section) ==
    {[year |-> ItemYear(section[i]), url |-> BASE_URL \o strip(section[i].links[1].href)] :
        i \in 1..Len(section)}

\* C6: the result comes from the first accordion only: it is an item of
\* page[1], it is what the page cut down to its first accordion gives, and
\* years held only by later accordions are never selected; a page whose
\* first accordion yields nothing fails even when a later one has items.
C6_FirstAccordionOnly ==
    (pc = "returned" /\ Len(arg) >= 1) =>
        /\ ret = find_latest_from_first_accordion(<<arg[1]>>)
        /\ ret.err = "none" =>
              [year |-> ret.year, url |-> ret.url] \in SectionPairs(arg[1])
        /\ ret.err = "none" =>
              \A i \in 1..Len(arg[1]) : ItemYear(arg[1][i]) <= ret.year
        /\ (\A i \in 1..Len(arg[1]) : ItemYear(arg[1][i]) = NoYear)
              => ret.err = "no_candidates"

\* a page whose second accordion holds a later year than its first
C6_Witness ==
    /\ pc = "returned"
    /\ Len(arg) = 2
    /\ ret.err = "none"
    /\ \E i \in 1..Len(arg[2]) : ItemYear(arg[2][i]) > ret.year

-----------------------------------------------------------------------------
(* The sort-and-pick step applied to a list of candidates                  *)

CandidateYears == {2021, 2022, 2023}

CandidateUrls == {<<"/","a">>, <<"/","b">>}

CandidateLists ==
    SeqsOf([year : CandidateYears, url : CandidateUrls], 1, MaxCandidates)

SortInit ==
    /\ Idle
    /\ arg \in CandidateLists
    /\ ret = <<>>

ApplySort ==
    /\ pc = "idle"
    /\ pc' = "returned"
    /\ ret' = Latest(arg)
    /\ UNCHANGED <<pipelineVars, arg>>

SpecSort == SortInit /\ [][ApplySort]_vars

\* C5: for a non-empty list the pick is the candidate of maximum year that
\* comes first in the list.
C5_MaxYearFirstEncountered ==
    pc = "returned" =>
        \E i \in 1..Len(arg) :
            /\ ret = arg[i]
            /\ \A j \in 1..Len(arg) : arg[j].year <= arg[i].year
            /\ \A j \in 1..(i - 1) : arg[j].year < arg[i].year

\* the maximum year occurs twice with different links, after a lower year
C5_Witness ==
    /\ pc = "returned"
    /\ Len(arg) = 3
    /\ arg[1].year < arg[2].year
    /\ arg[2].year = arg[3].year
    /\ arg[2].url /= arg[3].url
    /\ ret = arg[2]

=============================================================================
